---- MODULE Spec2Model ----
(***************************************************************************)
(* Job processing and quota enforcement core of the Oxlas Suite backend:   *)
(* the Redis rate limiter (check_rate_limit), the monthly usage ledger     *)
(* (user_usage rows), the Celery mail job (send_email_task) and the        *)
(* chunked-upload reassembly (upload_file_chunked / combine_chunks).       *)
(***************************************************************************)
EXTENDS Integers, Sequences, FiniteSets, TLC

(***************************************************************************)
(* Bounds of the exploration.                                              *)
(***************************************************************************)
NumProcs == 2
MaxCalls == 7
MaxTicks == 3
MaxMonth == 1
NumWorkers == 2
MaxMailCalls == 2
TotalChunks == 2
MaxUploadCalls == 4
MaxLost == 1
MaxFileSize == 1
MaxUsage == 2049
MaxAliasCalls == 8
MaxBurst == 11

Procs == 1..NumProcs
Workers == 1..NumWorkers
EmailIds == 1..MaxCalls

(***************************************************************************)
(* Python values.  A value carries its type, so that an operation between  *)
(* values of unrelated types raises TypeError as the interpreter does.     *)
(***************************************************************************)
None == [t |-> "NoneType"]
PyInt(n) == [t |-> "int", v |-> n]
PyStr(n) == [t |-> "str", v |-> n]
PyDict(d) == [t |-> "dict", v |-> d]

\* int(s) of a decimal string s (the strings of this model are numerals,
\* kept as the number they spell).
int(s) == PyInt(s.v)

\* a - b: defined between two ints; str - int raises TypeError.
PySub(a, b) ==
    IF a.t = "int" /\ b.t = "int" THEN PyInt(a.v - b.v) ELSE [t |-> "TypeError"]

\* a >= b: defined between two ints; int >= dict raises TypeError.
PyGe(a, b) ==
    IF a.t = "int" /\ b.t = "int"
    THEN IF a.v >= b.v THEN "True" ELSE "False"
    ELSE "TypeError"

(***************************************************************************)
(* users table (static): id -> plan.  NoSuchUser is an id without a row.   *)
(***************************************************************************)
users == (1 :> "free") @@ (2 :> "pro") @@ (3 :> "enterprise")
NoSuchUser == 4
UserIds == {1, 2, NoSuchUser}
Actions == {"email"}
Keys == (DOMAIN users \cup {NoSuchUser}) \X Actions

(***************************************************************************)
(* check_rate_limit: the plan table and the Redis key.                     *)
(***************************************************************************)
rate_limits ==
    [free |-> [email |-> 5], pro |-> [email |-> 20], enterprise |-> [email |-> 100]]

\* limit = rate_limits.get(user.plan.value, rate_limits["free"]): the
\* plan's dict, not the number under the action.
RateLimitsGet(plan) == PyDict(rate_limits[plan])

\* The number the plan table states for the action.
PlanRateLimit(plan, action) == rate_limits[plan][action]

\* A key that leaves the tenant out: one counter per action.
limit_key_per_action(user_id, action) == <<1, action>>

limit_key(user_id, action) == <<user_id, action>>

WindowSeconds == 60
TickSeconds == WindowSeconds \div 2
MaxNow == MaxTicks * TickSeconds
Times == {t \in 0..MaxNow : t % TickSeconds = 0}
Months == 0..MaxMonth

NoKey == [val |-> 0, exp |-> 0]
NoExpiry == -1

(***************************************************************************)
(* PlanFeatures.PLANS (the entries the handlers read).                     *)
(***************************************************************************)
Unlimited == [t |-> "str", v |-> "unlimited"]

PLANS ==
    [free |->
        [storage_limit_gb |-> PyInt(5), max_upload_size_mb |-> PyInt(50),
         max_aliases |-> PyInt(5), max_team_members |-> PyInt(1),
         max_emails_per_month |-> PyInt(300), max_emails_per_minute |-> PyInt(5),
         features |-> {"basic_email_features", "5gb_storage",
                       "basic_collaboration", "community_support"}],
     pro |->
        [storage_limit_gb |-> PyInt(50), max_upload_size_mb |-> PyInt(2048),
         max_aliases |-> Unlimited, max_team_members |-> PyInt(10),
         max_emails_per_month |-> PyInt(500), max_emails_per_minute |-> PyInt(20),
         features |-> {"advanced_email_features", "50gb_storage",
                       "advanced_collaboration", "priority_support",
                       "custom_domains", "advanced_analytics", "api_access",
                       "webhooks"}],
     enterprise |->
        [storage_limit_gb |-> Unlimited, max_upload_size_mb |-> Unlimited,
         max_aliases |-> Unlimited, max_team_members |-> Unlimited,
         max_emails_per_month |-> Unlimited, max_emails_per_minute |-> PyInt(100),
         features |-> {"all_pro_features", "unlimited_storage",
                       "enterprise_collaboration", "24/7_phone_support",
                       "custom_integrations", "advanced_security",
                       "compliance_certifications", "dedicated_account_manager",
                       "custom_policies", "audit_logs", "sso_integration"}]]

get_plan_features(plan) == PLANS[plan]

check_feature_access(plan, feature) == feature \in get_plan_features(plan).features

\* A monthly limit that still admits a tenant that has used it up.
check_email_monthly_limit_inclusive(plan, current_usage) ==
    LET max_emails == get_plan_features(plan).max_emails_per_month
    IN  IF max_emails = Unlimited THEN TRUE ELSE current_usage <= max_emails.v

check_email_monthly_limit(plan, current_usage) ==
    LET max_emails == get_plan_features(plan).max_emails_per_month
    IN  IF max_emails = Unlimited THEN TRUE ELSE current_usage < max_emails.v

\* A storage limit that refuses the usage equal to the limit.
check_storage_limit_exclusive(plan, current_usage_gb) ==
    LET storage_limit == get_plan_features(plan).storage_limit_gb
    IN  IF storage_limit = Unlimited THEN TRUE ELSE current_usage_gb < storage_limit.v

check_storage_limit(plan, current_usage_gb) ==
    LET storage_limit == get_plan_features(plan).storage_limit_gb
    IN  IF storage_limit = Unlimited THEN TRUE ELSE current_usage_gb <= storage_limit.v

check_upload_size(plan, file_size_mb) ==
    LET upload_limit == get_plan_features(plan).max_upload_size_mb
    IN  IF upload_limit = Unlimited THEN TRUE ELSE file_size_mb <= upload_limit.v

check_team_member_limit(plan, current_members) ==
    LET member_limit == get_plan_features(plan).max_team_members
    IN  IF member_limit = Unlimited THEN TRUE ELSE current_members <= member_limit.v

\* A Python bool as the handlers of this model return it.
PyBool(b) == IF b THEN "True" ELSE "False"

VARIABLES
    now,        \* wall clock, seconds
    month,      \* datetime.utcnow().strftime("%Y-%m"), as a month number
    redis,      \* rate-limit store: key -> [val, exp] or NoKey
    rl,         \* check_rate_limit frames, one per handler thread
    ncalls,     \* number of handler invocations so far
    admitLog,   \* history: key -> time -> number of calls that returned True
    user_usage, \* table user_usage: sequence of rows, id = position
    emails,     \* table emails: sequence of rows, id = position
    queue,      \* broker: the send_email_task messages not yet delivered
    rq,         \* POST /mail/send frames, one per handler thread
    http,       \* history: the responses of POST /mail/send, in order
    tk,         \* send_email_task frames, one per worker
    runs,       \* history: email id -> executions of send_email_task
    smtp,       \* history: email id -> messages handed to the SMTP server
    outcome,    \* history: email id -> "none" | "success" | "failure"
    debits,     \* history: <<user, month>> -> update_email_usage calls returned
    zeroed,     \* history: ids of the rows whose counters a reset set back to 0
    charged,    \* history: email id -> update_email_usage commits of its task
    unacked,    \* broker: the messages delivered and not yet acknowledged
    lost,       \* number of worker processes lost while running a task
    temp,       \* drive_storage/temp: upload id -> [exists, files: number -> bytes,
                \*   sender]
    drive_files,\* table drive_files: sequence of rows, id = position
    up,         \* upload_file_chunked frames, one per handler thread
    combines,   \* history: upload id -> calls of combine_chunks
    observed,   \* history: what the latest chunk count saw, and whether it finalized
    finished,   \* history: the latest run of combine_chunks that has ended
    aliases,    \* table aliases: sequence of rows, id = position
    alias_http, \* the latest response of POST /mail/alias or DELETE /mail/alias/{id}
    call        \* the latest call of a limit check of PlanFeatures and what it returned

rateVars == <<now, redis, rl, admitLog>>
mailVars == <<user_usage, emails, queue, tk, runs, smtp, outcome, debits, zeroed,
              charged, unacked, lost>>
driveVars == <<temp, drive_files, up, combines, observed, finished>>
planVars == <<aliases, alias_http, call>>
vars == <<now, month, redis, rl, ncalls, admitLog, user_usage, emails, queue, rq,
          http, tk, runs, smtp, outcome, debits, zeroed, charged, unacked,
          lost, temp,
          drive_files, up, combines, observed, finished, aliases, alias_http, call>>

RedisLive(k) == redis[k] # NoKey

\* redis_client.get(key): the stored numeral, or None.
RedisGet(k) == IF RedisLive(k) THEN PyStr(redis[k].val) ELSE None

\* A store that keeps the key for ever.
RedisSetexForEver(k, seconds, value) ==
    [redis EXCEPT ![k] = [val |-> value, exp |-> NoExpiry]]

\* A store that ends the key with the fixed window floor(now / seconds) it
\* was written in.
RedisSetexAligned(k, seconds, value) ==
    [redis EXCEPT ![k] = [val |-> value,
                          exp |-> ((now \div seconds) + 1) * seconds]]

\* redis_client.setex(key, seconds, value)
RedisSetex(k, seconds, value) ==
    [redis EXCEPT ![k] = [val |-> value, exp |-> now + seconds]]

\* redis_client.incr(key): a missing key counts from 0 and gets no expiry.
RedisIncr(k) ==
    IF RedisLive(k)
    THEN [redis EXCEPT ![k].val = @ + 1]
    ELSE [redis EXCEPT ![k] = [val |-> 1, exp |-> NoExpiry]]

(***************************************************************************)
(* Chunked uploads: the client cuts a file into TotalChunks chunks; chunk   *)
(* n carries ChunkBytes(n).  A client may also send a chunk number outside *)
(* [0, total_chunks): the route passes chunk_number on unchecked.          *)
(***************************************************************************)
UploadIds == {"upload-1"}
ChunkNumbers == 0..TotalChunks
InRange == 0..(TotalChunks - 1)
ChunkBytes(n) == [i \in 1..(n + 1) |-> n]
NoBytes == <<>>
\* sender (history): the tenant whose request wrote the chunk file last; the
\* file system keeps no such record.
NoDir == [exists |-> FALSE, files |-> [n \in ChunkNumbers |-> NoBytes],
          sender |-> [n \in ChunkNumbers |-> 0]]

\* op, month: the last call the thread served and the month it was made in.
IdleUpload == [pc |-> "idle", user_id |-> 0, upload_id |-> "", chunk_number |-> 0,
               total_chunks |-> 0, existed |-> FALSE, chunk_files |-> <<>>,
               total_size |-> 0, status |-> "none", chunks_uploaded |-> 0,
               op |-> "", month |-> 0]

IdleFrame == [pc |-> "idle", user_id |-> 0, action |-> "", caller |-> "",
              limit |-> None, current_count |-> None, result |-> "none"]

IdleRequest == [pc |-> "idle", user_id |-> 0, rate_ok |-> "none"]

\* exc, countdown: the exception a retry was asked for and the delay it was
\* asked with (self.retry(exc=e, countdown=...)), "" and 0 at first.
NoMessage == [email_id |-> 0, user_id |-> 0, retries |-> 0, exc |-> "",
              countdown |-> 0]
\* sent_before: the Email row was SENT already when the execution began.
IdleTask == [pc |-> "idle", msg |-> NoMessage, usage |-> 0, emails_sent |-> 0,
             exc |-> "", sent_before |-> FALSE]

\* No limit check has been called / no alias request answered yet.
NoCall == [fn |-> "", plan |-> "", arg |-> 0, rate_ok |-> "n/a", ret |-> "none"]
NoResponse == [op |-> "", user_id |-> 0, status |-> 0, detail |-> ""]

\* Everything but the table user_usage and the call of a limit check.
InitBase ==
    /\ now = 0
    /\ month = 0
    /\ redis = [k \in Keys |-> NoKey]
    /\ rl = [p \in Procs |-> IdleFrame]
    /\ ncalls = 0
    /\ admitLog = [k \in Keys |-> [t \in Times |-> 0]]
    /\ emails = <<>>
    /\ queue = {}
    /\ rq = [p \in Procs |-> IdleRequest]
    /\ http = <<>>
    /\ tk = [w \in Workers |-> IdleTask]
    /\ runs = [e \in EmailIds |-> 0]
    /\ smtp = [e \in EmailIds |-> 0]
    /\ outcome = [e \in EmailIds |-> "none"]
    /\ debits = [k \in (DOMAIN users) \X Months |-> 0]
    /\ zeroed = {}
    /\ charged = [e \in EmailIds |-> 0]
    /\ unacked = {}
    /\ lost = 0
    /\ temp = [id \in UploadIds |-> NoDir]
    /\ drive_files = <<>>
    /\ up = [p \in Procs |-> IdleUpload]
    /\ combines = [id \in UploadIds |-> 0]
    /\ observed = {}
    /\ finished = {}
    /\ aliases = <<>>
    /\ alias_http = NoResponse

\* A new installation: no usage row yet.
Init == InitBase /\ user_usage = <<>> /\ call = NoCall

(***************************************************************************)
(* check_rate_limit (monitoring_tasks.py), one Redis command per step.     *)
(***************************************************************************)

\* An except clause that refuses the call.
DenyOnError == "False"

\* lines 186-188: what the except clause returns.
AllowOnError == "True"

\* A call returns: the result is kept in the frame, an admission is logged,
\* and a caller waiting in check_email_limits resumes with the result.
Returned(p, res) ==
    /\ rl' = [rl EXCEPT ![p] = [IdleFrame EXCEPT !.result = res,
                                   !.user_id = rl[p].user_id,
                                   !.action = rl[p].action]]
    /\ admitLog' =
         IF res = "True"
         THEN [admitLog EXCEPT ![limit_key(rl[p].user_id, rl[p].action)][now] = @ + 1]
         ELSE admitLog
    /\ rq' = IF rl[p].caller = "check_email_limits"
             THEN [rq EXCEPT ![p].pc = "cel_monthly", ![p].rate_ok = res]
             ELSE rq

\* check_rate_limit(user_id, action) is called directly (middleware, tests).
check_rate_limit(p, user_id, action) ==
    /\ rl[p].pc = "idle"
    /\ rq[p].pc = "idle"
    /\ ncalls < MaxCalls
    /\ ncalls' = ncalls + 1
    /\ rl' = [rl EXCEPT ![p] = [IdleFrame EXCEPT !.pc = "rl_user",
                                   !.user_id = user_id, !.action = action,
                                   !.caller = "direct"]]
    /\ UNCHANGED <<now, month, redis, admitLog, mailVars, rq, http, driveVars, planVars>>

\* lines 157-170: the user's plan and its entry of rate_limits.
rl_user(p) ==
    /\ rl[p].pc = "rl_user"
    /\ IF rl[p].user_id \notin DOMAIN users
       THEN Returned(p, "False")
       ELSE /\ rl' = [rl EXCEPT ![p].pc = "rl_get",
                                 ![p].limit = RateLimitsGet(users[rl[p].user_id])]
            /\ UNCHANGED <<admitLog, rq>>
    /\ UNCHANGED <<now, month, redis, ncalls, mailVars, http, driveVars, planVars>>

\* lines 173-180: read the counter, then decide on the value read.  The
\* comparison of the count with limit raises TypeError when limit is a dict;
\* the handler's except clause (lines 186-188) then returns True.
rl_get(p) ==
    /\ rl[p].pc = "rl_get"
    /\ LET cur == RedisGet(limit_key(rl[p].user_id, rl[p].action))
           cmp == IF cur = None THEN "n/a" ELSE PyGe(int(cur), rl[p].limit)
       IN  CASE cur = None ->
                  /\ rl' = [rl EXCEPT ![p].pc = "rl_setex", ![p].current_count = cur]
                  /\ UNCHANGED <<admitLog, rq>>
             [] cur # None /\ cmp = "TypeError" -> Returned(p, AllowOnError)
             [] cur # None /\ cmp = "True" -> Returned(p, "False")
             [] cur # None /\ cmp = "False" ->
                  /\ rl' = [rl EXCEPT ![p].pc = "rl_incr", ![p].current_count = cur]
                  /\ UNCHANGED <<admitLog, rq>>
    /\ UNCHANGED <<now, month, redis, ncalls, mailVars, http, driveVars, planVars>>

\* line 175 (first call of a window) or line 183 (increment), then return True.
rl_write(p) ==
    /\ rl[p].pc \in {"rl_setex", "rl_incr"}
    /\ LET k == limit_key(rl[p].user_id, rl[p].action)
       IN  redis' = IF rl[p].pc = "rl_setex"
                    THEN RedisSetex(k, WindowSeconds, 1)
                    ELSE RedisIncr(k)
    /\ Returned(p, "True")
    /\ UNCHANGED <<now, month, ncalls, mailVars, http, driveVars, planVars>>

\* Time passes; Redis drops the keys whose expiry is reached.
Tick ==
    /\ now + TickSeconds <= MaxNow
    /\ now' = now + TickSeconds
    /\ redis' = [k \in Keys |->
                   IF RedisLive(k) /\ redis[k].exp # NoExpiry /\ redis[k].exp <= now'
                   THEN NoKey ELSE redis[k]]
    /\ UNCHANGED <<month, rl, ncalls, admitLog, mailVars, rq, http, driveVars, planVars>>

NextRate ==
    \/ \E p \in Procs, u \in UserIds, a \in Actions : check_rate_limit(p, u, a)
    \/ \E p \in Procs : rl_user(p)
    \/ \E p \in Procs : rl_get(p)
    \/ \E p \in Procs : rl_write(p)
    \/ Tick

SpecRate == Init /\ [][NextRate]_vars

(***************************************************************************)
(* The stores can fail: the statement a call is at (the query of the user, *)
(* a Redis command) raises, the store unreachable and nothing written.     *)
(***************************************************************************)
OutageUsers == {1, NoSuchUser}

\* lines 186-188: the exception is logged and the call returns True.
rl_except(p) ==
    /\ rl[p].pc \in {"rl_user", "rl_get", "rl_setex", "rl_incr"}
    /\ Returned(p, AllowOnError)
    /\ UNCHANGED <<now, month, redis, ncalls, mailVars, http, driveVars, planVars>>

NextOutage ==
    \/ \E p \in Procs, u \in OutageUsers, a \in Actions : check_rate_limit(p, u, a)
    \/ \E p \in Procs : rl_user(p)
    \/ \E p \in Procs : rl_get(p)
    \/ \E p \in Procs : rl_write(p)
    \/ \E p \in Procs : rl_except(p)
    \/ Tick

SpecOutage == Init /\ [][NextOutage]_vars

(***************************************************************************)
(* A burst: one free-plan tenant calls check_rate_limit more than twice    *)
(* its per-minute limit of times.                                          *)
(***************************************************************************)
BurstUsers == {1}

check_rate_limit_burst(p, user_id, action) ==
    /\ rl[p].pc = "idle"
    /\ rq[p].pc = "idle"
    /\ ncalls < MaxBurst
    /\ ncalls' = ncalls + 1
    /\ rl' = [rl EXCEPT ![p] = [IdleFrame EXCEPT !.pc = "rl_user",
                                   !.user_id = user_id, !.action = action,
                                   !.caller = "direct"]]
    /\ UNCHANGED <<now, month, redis, admitLog, mailVars, rq, http, driveVars, planVars>>

NextBurst ==
    \/ \E p \in Procs, u \in BurstUsers, a \in Actions : check_rate_limit_burst(p, u, a)
    \/ \E p \in Procs : rl_user(p)
    \/ \E p \in Procs : rl_get(p)
    \/ \E p \in Procs : rl_write(p)
    \/ Tick

SpecBurst == Init /\ [][NextBurst]_vars

(***************************************************************************)
(* The usage ledger: table user_usage, unique on (user_id, month).         *)
(***************************************************************************)
UsageIds(user_id, m) ==
    {i \in 1..Len(user_usage) :
        user_usage[i].user_id = user_id /\ user_usage[i].month = m}

\* db.query(UserUsage).filter(user_id, month).first(): a row id, or 0.
UsageFirst(user_id, m) ==
    IF UsageIds(user_id, m) = {} THEN 0
    ELSE CHOOSE i \in UsageIds(user_id, m) : \A j \in UsageIds(user_id, m) : i <= j

(***************************************************************************)
(* POST /mail/send: api/mail.py send_email -> EmailService.send_email ->   *)
(* check_email_limits -> check_rate_limit.                                 *)
(***************************************************************************)

\* The request of an authenticated user enters check_email_limits, finds the
\* user (lines 64-68) and calls check_rate_limit(user_id, "email").
send_email(p, user_id) ==
    /\ rq[p].pc = "idle"
    /\ rl[p].pc = "idle"
    /\ ncalls < MaxCalls
    /\ ncalls' = ncalls + 1
    /\ rq' = [rq EXCEPT ![p] = [IdleRequest EXCEPT !.pc = "cel_rate",
                                   !.user_id = user_id]]
    /\ rl' = [rl EXCEPT ![p] = [IdleFrame EXCEPT !.pc = "rl_user",
                                   !.user_id = user_id, !.action = "email",
                                   !.caller = "check_email_limits"]]
    /\ UNCHANGED <<now, month, redis, admitLog, mailVars, http, driveVars, planVars>>

\* check_email_limits, lines 70-104, on the rate result and the usage row read.
check_email_limits(plan, rate_ok, emails_sent) ==
    LET max_emails == get_plan_features(plan).max_emails_per_month
    IN  IF rate_ok # "True"
        THEN [allowed |-> FALSE, reason |-> "rate_limit_exceeded"]
        ELSE IF ~check_email_monthly_limit(plan, emails_sent)
        THEN [allowed |-> FALSE, reason |-> "monthly_limit_exceeded"]
        ELSE IF PySub(max_emails, PyInt(emails_sent)).t = "TypeError"
        THEN [allowed |-> FALSE, reason |-> "internal_error"]
        ELSE [allowed |-> TRUE, reason |-> ""]

\* A service that queues the mail without looking at the limits.
SendEmailUnchecked(plan, limit_check) == ""

\* EmailService.send_email lines 59-75: the ValueError raised, or "".
SendEmailError(plan, limit_check) ==
    IF ~limit_check.allowed
    THEN CASE limit_check.reason = "rate_limit_exceeded" -> "Rate limit exceeded"
           [] limit_check.reason = "monthly_limit_exceeded" -> "Monthly email limit exceeded"
           [] OTHER -> "Email sending not allowed"
    ELSE IF ~check_feature_access(plan, "basic_email_features")
    THEN "Email sending not available in your plan"
    ELSE ""

\* api/mail.py lines 76-80: a ValueError of the service is answered 400.
ValueErrorStatus == 400
QueuedStatus == 200

\* The rest of the request: the monthly check on the usage row of the month,
\* then either the ValueError answered by the route, or the Email row
\* (PENDING) and the send_email_task message.
cel_monthly(p) ==
    /\ rq[p].pc = "cel_monthly"
    /\ LET user_id == rq[p].user_id
           plan == users[user_id]
           usage == UsageFirst(user_id, month)
           emails_sent == IF usage # 0 THEN user_usage[usage].emails_sent ELSE 0
           err == SendEmailError(plan, check_email_limits(plan, rq[p].rate_ok, emails_sent))
       IN  IF err # ""
           THEN /\ http' = Append(http, [user_id |-> user_id, rate_ok |-> rq[p].rate_ok,
                                          status |-> ValueErrorStatus, detail |-> err])
                /\ UNCHANGED <<emails, queue>>
           ELSE /\ emails' = Append(emails, [user_id |-> user_id, status |-> "pending"])
                /\ queue' = queue \cup {[email_id |-> Len(emails) + 1,
                                         user_id |-> user_id, retries |-> 0,
                                         exc |-> "", countdown |-> 0]}
                /\ http' = Append(http, [user_id |-> user_id, rate_ok |-> rq[p].rate_ok,
                                          status |-> QueuedStatus, detail |-> "pending"])
    /\ rq' = [rq EXCEPT ![p] = IdleRequest]
    /\ UNCHANGED <<now, month, redis, rl, ncalls, admitLog, user_usage, tk, runs,
                   smtp, outcome, debits, zeroed, charged, unacked, lost, driveVars, planVars>>

\* Requests handled one after the other by a single thread, within one window.
NextApiSeq ==
    \/ \E u \in DOMAIN users : send_email(1, u)
    \/ rl_user(1)
    \/ rl_get(1)
    \/ rl_write(1)
    \/ cel_monthly(1)

SpecApiSeq == Init /\ [][NextApiSeq]_vars

(***************************************************************************)
(* The limit checks as functions of their arguments: the four checks of    *)
(* PlanFeatures and check_email_limits on the result of check_rate_limit   *)
(* and the emails_sent it reads.  A call is made with arguments of the     *)
(* range 0..MaxUsage and then returns.                                     *)
(***************************************************************************)
Plans == {"free", "pro", "enterprise"}
Usages == 0..MaxUsage

PlanCalls ==
    [fn : {"check_email_monthly_limit", "check_storage_limit", "check_upload_size",
           "check_team_member_limit"},
     plan : Plans, arg : Usages, rate_ok : {"n/a"}, ret : {"none"}]
    \cup [fn : {"check_email_limits"}, plan : Plans, arg : Usages,
          rate_ok : {"True", "False"}, ret : {"none"}]

InitPlans == InitBase /\ user_usage = <<>> /\ call \in PlanCalls

notCall == <<now, month, redis, rl, ncalls, admitLog, mailVars, rq, http, driveVars,
             aliases, alias_http>>

\* The call of fn that is pending.
Pending(fn) == call.fn = fn /\ call.ret = "none"

return_check_email_monthly_limit ==
    /\ Pending("check_email_monthly_limit")
    /\ call' = [call EXCEPT
                   !.ret = PyBool(check_email_monthly_limit(call.plan, call.arg))]
    /\ UNCHANGED notCall

return_check_storage_limit ==
    /\ Pending("check_storage_limit")
    /\ call' = [call EXCEPT !.ret = PyBool(check_storage_limit(call.plan, call.arg))]
    /\ UNCHANGED notCall

return_check_upload_size ==
    /\ Pending("check_upload_size")
    /\ call' = [call EXCEPT !.ret = PyBool(check_upload_size(call.plan, call.arg))]
    /\ UNCHANGED notCall

return_check_team_member_limit ==
    /\ Pending("check_team_member_limit")
    /\ call' = [call EXCEPT
                   !.ret = PyBool(check_team_member_limit(call.plan, call.arg))]
    /\ UNCHANGED notCall

return_check_email_limits ==
    /\ Pending("check_email_limits")
    /\ call' = [call EXCEPT
                   !.ret = PyBool(check_email_limits(call.plan, call.rate_ok,
                                                     call.arg).allowed)]
    /\ UNCHANGED notCall

NextPlans ==
    \/ return_check_email_monthly_limit
    \/ return_check_storage_limit
    \/ return_check_upload_size
    \/ return_check_team_member_limit
    \/ return_check_email_limits

SpecPlans == InitPlans /\ [][NextPlans]_vars

(***************************************************************************)
(* The table user_usage under its constraint uq_user_month_usage.          *)
(***************************************************************************)

\* The table without its constraint: every insert is accepted.
uq_not_enforced(user_id, m) == TRUE

\* UniqueConstraint('user_id', 'month'): may a row for (user_id, m) be added?
uq_user_month_usage(user_id, m) == UsageIds(user_id, m) = {}

NewUsage(user_id, m, sent) ==
    [user_id |-> user_id, month |-> m, emails_sent |-> sent,
     emails_received |-> 0, storage_used_bytes |-> 0]

(***************************************************************************)
(* send_email_task (email_tasks.py), executed by the Celery workers.       *)
(***************************************************************************)
max_retries == 3

\* A retry policy that counts the first execution among the max_retries.
RetryCountingFirstRun(retries) == IF retries + 1 >= max_retries THEN "raise" ELSE "retry"

\* Task.retry: the task is sent again with retries + 1 unless that exceeds
\* max_retries, in which case the exception is raised and the task fails.
Retry(retries) == IF retries + 1 > max_retries THEN "raise" ELSE "retry"

\* The options of @celery_app.task(bind=True, max_retries=3,
\* default_retry_delay=60) on send_email_task and scan_file_task.
task_options == [bind |-> TRUE, max_retries |-> max_retries, default_retry_delay |-> 60]

\* countdown=60 * (2 ** self.request.retries)
RetryCountdown(retries) == 60 * (2 ^ retries)

\* A worker that acknowledges a message when it receives it.
acks_early == FALSE

\* celery_app.conf task_acks_late=True: a message is acknowledged after the
\* task has run, not when the worker receives it.
acks_late == TRUE

\* A broker that drops the message of a lost worker.
dropped_on_worker_lost == FALSE

\* celery_app.conf task_reject_on_worker_lost=True: the message of a task
\* whose worker process was lost is rejected and put back on the queue.
task_reject_on_worker_lost == TRUE

\* The unacknowledged messages after m was delivered / after m was settled.
Delivered(m) == IF acks_late THEN unacked \cup {m} ELSE unacked
Acknowledged(m) == unacked \ {m}

taskFrame == <<now, month, redis, rl, ncalls, admitLog, rq, http, zeroed, lost,
               driveVars, planVars>>

\* What only update_email_usage and the acknowledgement change.
settled == <<charged, unacked>>

\* A worker receives a message and starts the task.
deliver(w, m) ==
    /\ tk[w].pc = "idle"
    /\ m \in queue
    /\ queue' = queue \ {m}
    /\ tk' = [tk EXCEPT ![w] = [IdleTask EXCEPT
                                   !.pc = "task_check", !.msg = m,
                                   !.sent_before = emails[m.email_id].status = "sent"]]
    /\ runs' = [runs EXCEPT ![m.email_id] = @ + 1]
    /\ unacked' = Delivered(m)
    /\ UNCHANGED <<taskFrame, user_usage, emails, smtp, outcome, debits, charged>>

\* check_email_usage_limit lines 289-297 on the emails_sent of the row.
PlanAllowsEmail(plan, emails_sent) ==
    IF plan = "enterprise" THEN TRUE
    ELSE emails_sent < get_plan_features(plan).max_emails_per_month.v

\* lines 36-44 and 269-277: the user, then the usage row of the month is read.
task_check(w) ==
    /\ tk[w].pc = "task_check"
    /\ LET user_id == tk[w].msg.user_id
           usage == UsageFirst(user_id, month)
           next == IF user_id \notin DOMAIN users THEN "task_except"
                   ELSE IF usage = 0 THEN "cul_insert"
                   ELSE IF PlanAllowsEmail(users[user_id], user_usage[usage].emails_sent)
                   THEN "task_smtp" ELSE "task_except"
       IN  tk' = [tk EXCEPT ![w].pc = next,
                            ![w].exc = IF next = "task_except" THEN "ValueError" ELSE ""]
    /\ UNCHANGED <<taskFrame, user_usage, emails, queue, runs, smtp, outcome, debits,
                   settled>>

\* check_email_usage_limit lines 279-297: the row of the month is created; the
\* commit raises IntegrityError when the constraint finds a row by now.
cul_insert(w) ==
    /\ tk[w].pc = "cul_insert"
    /\ LET user_id == tk[w].msg.user_id
       IN  IF uq_user_month_usage(user_id, month)
           THEN /\ user_usage' = Append(user_usage, NewUsage(user_id, month, 0))
                /\ tk' = IF PlanAllowsEmail(users[user_id], 0)
                         THEN [tk EXCEPT ![w].pc = "task_smtp"]
                         ELSE [tk EXCEPT ![w].pc = "task_except",
                                         ![w].exc = "ValueError"]
           ELSE /\ tk' = [tk EXCEPT ![w].pc = "task_except",
                                    ![w].exc = "IntegrityError"]
                /\ UNCHANGED user_usage
    /\ UNCHANGED <<taskFrame, emails, queue, runs, smtp, outcome, debits, settled>>

\* lines 75-100: the message is handed to the SMTP server, or the send raises.
task_smtp(w) ==
    /\ tk[w].pc = "task_smtp"
    /\ \/ /\ smtp' = [smtp EXCEPT ![tk[w].msg.email_id] = @ + 1]
          /\ tk' = [tk EXCEPT ![w].pc = "task_sent"]
       \/ /\ tk' = [tk EXCEPT ![w].pc = "task_except", ![w].exc = "SMTPException"]
          /\ UNCHANGED smtp
    /\ UNCHANGED <<taskFrame, user_usage, emails, queue, runs, outcome, debits, settled>>

\* lines 103-108: the Email row is set to SENT and committed.
task_sent(w) ==
    /\ tk[w].pc = "task_sent"
    /\ emails' = [emails EXCEPT ![tk[w].msg.email_id].status = "sent"]
    /\ tk' = [tk EXCEPT ![w].pc = "ueu_read"]
    /\ UNCHANGED <<taskFrame, user_usage, queue, runs, smtp, outcome, debits, settled>>

\* update_email_usage lines 304-307: the usage row of the month is loaded.
ueu_read(w) ==
    /\ tk[w].pc = "ueu_read"
    /\ LET usage == UsageFirst(tk[w].msg.user_id, month)
       IN  tk' = [tk EXCEPT ![w].pc = "ueu_write", ![w].usage = usage,
                            ![w].emails_sent =
                                IF usage = 0 THEN 0 ELSE user_usage[usage].emails_sent]
    /\ UNCHANGED <<taskFrame, user_usage, emails, queue, runs, smtp, outcome, debits,
                   settled>>

\* usage.emails_sent += 1 on the loaded object: the value the UPDATE writes.
Incremented(loaded) == loaded + 1

\* update_email_usage lines 309-319: the loaded value plus one is written (or
\* a new row with emails_sent = 1 is inserted) and committed.
ueu_write(w) ==
    /\ tk[w].pc = "ueu_write"
    /\ LET user_id == tk[w].msg.user_id
           usage == tk[w].usage
       IN  IF usage = 0 /\ ~uq_user_month_usage(user_id, month)
           THEN /\ tk' = [tk EXCEPT ![w].pc = "task_except",
                                    ![w].exc = "IntegrityError"]
                /\ UNCHANGED <<user_usage, debits, charged>>
           ELSE /\ user_usage' =
                     IF usage = 0
                     THEN Append(user_usage, NewUsage(user_id, month, Incremented(0)))
                     ELSE [user_usage EXCEPT ![usage].emails_sent =
                                                Incremented(tk[w].emails_sent)]
                /\ debits' = [debits EXCEPT
                                ![<<user_id,
                                    IF usage = 0 THEN month ELSE user_usage[usage].month>>]
                                    = @ + 1]
                /\ charged' = [charged EXCEPT ![tk[w].msg.email_id] = @ + 1]
                /\ tk' = [tk EXCEPT ![w].pc = "task_return"]
    /\ UNCHANGED <<taskFrame, emails, queue, runs, smtp, outcome, unacked>>

\* lines 113-121: the task returns its result; the worker acknowledges the
\* message of the task that has run (task_acks_late).
task_return(w) ==
    /\ tk[w].pc = "task_return"
    /\ outcome' = [outcome EXCEPT ![tk[w].msg.email_id] = "success"]
    /\ unacked' = Acknowledged(tk[w].msg)
    /\ tk' = [tk EXCEPT ![w] = IdleTask]
    /\ UNCHANGED <<taskFrame, user_usage, emails, queue, runs, smtp, debits, charged>>

\* lines 123-139: the Email row is set to FAILED, then self.retry either sends
\* the task again or raises, which ends the job as failed.
task_except(w) ==
    /\ tk[w].pc = "task_except"
    /\ emails' = [emails EXCEPT ![tk[w].msg.email_id].status = "failed"]
    /\ IF Retry(tk[w].msg.retries) = "retry"
       THEN /\ queue' = queue \cup
                         {[tk[w].msg EXCEPT
                             !.retries = @ + 1, !.exc = tk[w].exc,
                             !.countdown = RetryCountdown(tk[w].msg.retries)]}
            /\ UNCHANGED outcome
       ELSE /\ outcome' = [outcome EXCEPT ![tk[w].msg.email_id] = "failure"]
            /\ UNCHANGED queue
    /\ unacked' = Acknowledged(tk[w].msg)
    /\ tk' = [tk EXCEPT ![w] = IdleTask]
    /\ UNCHANGED <<taskFrame, user_usage, runs, smtp, debits, charged>>

\* The worker process running a task is lost (killed, out of memory, host
\* down).  With late acknowledgement its message is still unacknowledged:
\* it is rejected back to the queue, or dropped, as the configuration says.
worker_lost(w) ==
    /\ tk[w].pc # "idle"
    /\ lost < MaxLost
    /\ lost' = lost + 1
    /\ IF tk[w].msg \in unacked /\ task_reject_on_worker_lost
       THEN queue' = queue \cup {tk[w].msg}
       ELSE UNCHANGED queue
    /\ unacked' = Acknowledged(tk[w].msg)
    /\ tk' = [tk EXCEPT ![w] = IdleTask]
    /\ UNCHANGED <<now, month, redis, rl, ncalls, admitLog, rq, http, zeroed, driveVars, planVars,
                   user_usage, emails, runs, smtp, outcome, debits, charged>>

(***************************************************************************)
(* reset_monthly_usage (monitoring_tasks.py), run by Celery beat, and the  *)
(* calendar.                                                               *)
(***************************************************************************)
\* A reset whose query does not filter on the month.
ResetMonthFilterDropped(row, current_month) == TRUE

\* lines 43-46: the filter UserUsage.month == current_month of the query.
ResetMonthFilter(row, current_month) == row.month = current_month

\* The row the loop finds for the row's user, if it passes the filter:
\* .first() takes the lowest id.
ResetSelects(i, current_month) ==
    /\ user_usage[i].user_id \in DOMAIN users
    /\ ResetMonthFilter(user_usage[i], current_month)
    /\ \A j \in 1..(i - 1) :
          user_usage[j].user_id = user_usage[i].user_id
              => ~ResetMonthFilter(user_usage[j], current_month)

reset_monthly_usage ==
    /\ user_usage # <<>>
    /\ LET current_month == month
       IN  user_usage' =
             [i \in 1..Len(user_usage) |->
                IF ResetSelects(i, current_month)
                THEN [user_usage[i] EXCEPT !.emails_sent = 0, !.emails_received = 0]
                ELSE user_usage[i]]
    /\ zeroed' = zeroed \cup {i \in 1..Len(user_usage) : user_usage'[i] # user_usage[i]}
    /\ UNCHANGED <<now, month, redis, rl, ncalls, admitLog, rq, http, driveVars, planVars>>
    /\ UNCHANGED <<emails, queue, tk, runs, smtp, outcome, debits, charged, unacked,
                   lost>>

NextMonth ==
    /\ month < MaxMonth
    /\ month' = month + 1
    /\ UNCHANGED <<now, redis, rl, ncalls, admitLog, rq, http, mailVars, driveVars, planVars>>

NextMail ==
    \/ \E p \in Procs, u \in DOMAIN users : ncalls < MaxMailCalls /\ send_email(p, u)
    \/ \E p \in Procs : rl_user(p)
    \/ \E p \in Procs : rl_get(p)
    \/ \E p \in Procs : rl_write(p)
    \/ \E p \in Procs : cel_monthly(p)
    \/ \E w \in Workers, m \in queue : deliver(w, m)
    \/ \E w \in Workers : task_check(w)
    \/ \E w \in Workers : cul_insert(w)
    \/ \E w \in Workers : task_smtp(w)
    \/ \E w \in Workers : task_sent(w)
    \/ \E w \in Workers : ueu_read(w)
    \/ \E w \in Workers : ueu_write(w)
    \/ \E w \in Workers : task_return(w)
    \/ \E w \in Workers : task_except(w)
    \/ reset_monthly_usage
    \/ NextMonth

SpecMail == Init /\ [][NextMail]_vars

(***************************************************************************)
(* A tenant one mail short of its monthly limit, within one calendar month *)
(* (requests handled one after the other, workers and resets concurrent).  *)
(***************************************************************************)
\* The emails_sent of the free tenant's row: the plan's limit less one.
AlreadySent == get_plan_features("free").max_emails_per_month.v - 1

InitQuota == InitBase /\ user_usage = <<NewUsage(1, 0, AlreadySent)>> /\ call = NoCall

\* One execution step of send_email_task on worker w, the lazy creation of
\* the usage row apart.
WorkerStep(w) ==
    \/ task_check(w)
    \/ task_smtp(w)
    \/ task_sent(w)
    \/ ueu_read(w)
    \/ ueu_write(w)
    \/ task_return(w)
    \/ task_except(w)

NextQuota ==
    \/ \E u \in DOMAIN users : ncalls < MaxMailCalls /\ send_email(1, u)
    \/ rl_user(1)
    \/ rl_get(1)
    \/ rl_write(1)
    \/ cel_monthly(1)
    \/ \E w \in Workers, m \in queue : deliver(w, m)
    \/ \E w \in Workers : WorkerStep(w)
    \/ reset_monthly_usage

SpecQuota == InitQuota /\ [][NextQuota]_vars

(***************************************************************************)
(* Workers that can be lost while they run a task.                         *)
(***************************************************************************)
NextCrash ==
    \/ ncalls < MaxMailCalls /\ send_email(1, 1)
    \/ rl_user(1)
    \/ rl_get(1)
    \/ rl_write(1)
    \/ cel_monthly(1)
    \/ \E w \in Workers, m \in queue : deliver(w, m)
    \/ \E w \in Workers : WorkerStep(w)
    \/ \E w \in Workers : cul_insert(w)
    \/ \E w \in Workers : worker_lost(w)

SpecCrash == Init /\ [][NextCrash]_vars

\* The broker delivers a queued message to an idle worker, and a worker that
\* runs a task goes on with it, unless it is lost.
SpecCrashFair ==
    /\ SpecCrash
    /\ WF_vars(\E w \in Workers, m \in queue : deliver(w, m))
    /\ \A w \in Workers : WF_vars(WorkerStep(w) \/ cul_insert(w))

(***************************************************************************)
(* DriveService (drive_service.py): upload_file_chunked and combine_chunks.*)
(***************************************************************************)

\* The names bound in the module drive_service (its imports, lines 1-14).
drive_service_globals ==
    {"os", "uuid", "hashlib", "shutil", "Path", "Optional", "List", "Dict", "Any",
     "datetime", "timedelta", "aiofiles", "UploadFile", "HTTPException", "status",
     "get_db", "User", "DriveFile", "DriveFolder", "DriveShare", "get_logger",
     "settings", "PlanFeatures", "logger", "DriveService", "drive_service"}

\* A module drive_service that imports UserUsage with the other models.
NameImported(name) == TRUE

\* Evaluating a global name that the module does not bind raises NameError.
NameBound(name) == name \in drive_service_globals

\* Row of the user for the month, read by the quota check.
StorageUsed(user_id) ==
    IF UsageFirst(user_id, month) = 0 THEN 0
    ELSE user_usage[UsageFirst(user_id, month)].storage_used_bytes

\* check_storage_quota, lines 502-522.  Its first statement queries
\* UserUsage.  (current_usage + file_size) <= storage_limit_gb * 1024^3 is
\* compared in whole GiB, rounded up, which is the same order on integers.
check_storage_quota(user_id, file_size) ==
    IF ~NameBound("UserUsage") THEN "NameError"
    ELSE LET storage_limit_gb == get_plan_features(users[user_id]).storage_limit_gb
             gib == 1024 * 1024 * 1024
         IN  IF storage_limit_gb = Unlimited THEN "True"
             ELSE IF (StorageUsed(user_id) + file_size + gib - 1) \div gib
                        <= storage_limit_gb.v
                  THEN "True" ELSE "False"

\* update_storage_usage, lines 524-542: the table after the call, or the
\* exception raised.  Its second statement queries UserUsage.
update_storage_usage(user_id, size_change) ==
    IF ~NameBound("UserUsage") THEN "NameError"
    ELSE LET usage == UsageFirst(user_id, month)
         IN  IF usage = 0
             THEN Append(user_usage,
                         [NewUsage(user_id, month, 0) EXCEPT
                             !.storage_used_bytes = size_change])
             ELSE [user_usage EXCEPT ![usage].storage_used_bytes = @ + size_change]

\* temp_dir.glob("chunk_*"): the numbers of the chunk files present.
glob(upload_id) ==
    IF temp[upload_id].exists
    THEN {n \in ChunkNumbers : temp[upload_id].files[n] # NoBytes}
    ELSE {}

\* A naming of the chunk file by the order of arrival.
chunk_path_by_arrival(upload_id, chunk_number) == Cardinality(glob(upload_id))

\* chunk_path = temp_dir / f"chunk_{chunk_number}": the file is named by the
\* chunk number alone.
chunk_path(upload_id, chunk_number) == chunk_number

\* sorted(..., key=lambda x: int(x.stem.split("_")[1])): ascending numbers.
RECURSIVE sorted(_)
sorted(S) ==
    IF S = {} THEN <<>>
    ELSE LET lo == CHOOSE x \in S : \A y \in S : x <= y
         IN  <<lo>> \o sorted(S \ {lo})

\* The bytes of the chunk files of a listing, one after the other.
RECURSIVE Concatenated(_, _)
Concatenated(upload_id, chunk_files) ==
    IF chunk_files = <<>> THEN <<>>
    ELSE temp[upload_id].files[Head(chunk_files)]
            \o Concatenated(upload_id, Tail(chunk_files))

RECURSIVE TotalSize(_, _)
TotalSize(upload_id, chunk_files) ==
    IF chunk_files = <<>> THEN 0
    ELSE Len(temp[upload_id].files[Head(chunk_files)])
            + TotalSize(upload_id, Tail(chunk_files))

notDrive == <<now, month, redis, rl, admitLog, emails, queue, rq, http, tk, runs,
              smtp, outcome, debits, zeroed, charged, unacked, lost, planVars>>

\* lines 117-126: the request is entered and the temporary directory made.
upload_file_chunked(p, user_id, upload_id, chunk_number) ==
    /\ up[p].pc = "idle"
    /\ ncalls < MaxUploadCalls
    /\ ncalls' = ncalls + 1
    /\ temp' = [temp EXCEPT ![upload_id].exists = TRUE]
    /\ up' = [up EXCEPT ![p] = [IdleUpload EXCEPT !.pc = "ufc_write",
                                   !.user_id = user_id, !.upload_id = upload_id,
                                   !.chunk_number = chunk_number,
                                   !.total_chunks = TotalChunks]]
    /\ UNCHANGED <<notDrive, user_usage, drive_files, combines, observed, finished>>

\* lines 129-131: the chunk file is opened for writing (created or
\* truncated) and written; the open fails when the directory is gone.
ufc_write(p) ==
    /\ up[p].pc = "ufc_write"
    /\ LET id == up[p].upload_id
           name == chunk_path(id, up[p].chunk_number)
       IN  IF temp[id].exists
           THEN /\ temp' = [temp EXCEPT ![id].files[name] = ChunkBytes(up[p].chunk_number),
                                        ![id].sender[name] = up[p].user_id]
                /\ up' = [up EXCEPT ![p].pc = "ufc_count",
                                    ![p].existed = up[p].chunk_number \in glob(id)]
           ELSE /\ up' = [up EXCEPT ![p] = [IdleUpload EXCEPT !.status = "error"]]
                /\ UNCHANGED temp
    /\ UNCHANGED <<notDrive, ncalls, user_usage, drive_files, combines, observed, finished>>

\* lines 134-149: the chunk files are counted; combine_chunks is called when
\* the count equals total_chunks, else the call reports "uploading".
ufc_count(p) ==
    /\ up[p].pc = "ufc_count"
    /\ LET id == up[p].upload_id
           uploaded_chunks == Cardinality(glob(id))
           complete == uploaded_chunks = up[p].total_chunks
       IN  /\ observed' = {[listing |-> glob(id), finalize |-> complete]}
           /\ IF complete
              THEN /\ up' = [up EXCEPT ![p].pc = "cc_list"]
                   /\ combines' = [combines EXCEPT ![id] = @ + 1]
              ELSE /\ up' = [up EXCEPT ![p] = [IdleUpload EXCEPT
                                                 !.status = "uploading",
                                                 !.chunks_uploaded = uploaded_chunks]]
                   /\ UNCHANGED combines
    /\ UNCHANGED <<notDrive, ncalls, user_usage, temp, drive_files, finished>>

\* combine_chunks lines 163-172: the user, the sorted chunk files, their sizes.
cc_list(p) ==
    /\ up[p].pc = "cc_list"
    /\ LET id == up[p].upload_id
           chunk_files == sorted(glob(id))
       IN  up' = [up EXCEPT ![p].pc =
                              IF up[p].user_id \in DOMAIN users
                              THEN "cc_quota" ELSE "cc_except",
                            ![p].chunk_files = chunk_files,
                            ![p].total_size = TotalSize(id, chunk_files)]
    /\ UNCHANGED <<notDrive, ncalls, user_usage, temp, drive_files, combines,
                   observed, finished>>

\* combine_chunks lines 175-234, the rest of the try block, one statement
\* group per step: the quota check, where False raises ValueError and an
\* exception of the check itself propagates (cc_quota); the final file written
\* from the chunk files in listing order and its DriveFile row committed
\* (cc_write); the storage debit (cc_debit); the temporary directory removed
\* and the scan queued (cc_clean).  Every exception leads to the except clause.
cc_try(p) ==
    /\ up[p].pc \in {"cc_quota", "cc_write", "cc_debit", "cc_clean"}
    /\ LET id == up[p].upload_id
           present == \A i \in 1..Len(up[p].chunk_files) : up[p].chunk_files[i] \in glob(id)
           debited == update_storage_usage(up[p].user_id, up[p].total_size)
       IN  CASE up[p].pc = "cc_quota" ->
                  /\ up' = [up EXCEPT ![p].pc =
                              IF check_storage_quota(up[p].user_id, up[p].total_size) = "True"
                              THEN "cc_write" ELSE "cc_except"]
                  /\ UNCHANGED <<user_usage, temp, drive_files, finished>>
             [] up[p].pc = "cc_write" ->
                  /\ IF present
                     THEN /\ drive_files' =
                               Append(drive_files,
                                      [user_id |-> up[p].user_id,
                                       file_size |-> up[p].total_size,
                                       content |-> Concatenated(id, up[p].chunk_files),
                                       is_deleted |-> FALSE])
                          /\ up' = [up EXCEPT ![p].pc = "cc_debit"]
                     ELSE /\ up' = [up EXCEPT ![p].pc = "cc_except"]
                          /\ UNCHANGED drive_files
                  /\ UNCHANGED <<user_usage, temp, finished>>
             [] up[p].pc = "cc_debit" ->
                  /\ IF debited = "NameError"
                     THEN /\ up' = [up EXCEPT ![p].pc = "cc_except"]
                          /\ UNCHANGED user_usage
                     ELSE /\ up' = [up EXCEPT ![p].pc = "cc_clean"]
                          /\ user_usage' = debited
                  /\ UNCHANGED <<temp, drive_files, finished>>
             [] up[p].pc = "cc_clean" ->
                  /\ temp' = [temp EXCEPT ![id] = NoDir]
                  /\ finished' =
                        {[listing |-> up[p].chunk_files, success |-> TRUE,
                          file_id |-> Len(drive_files)]}
                  /\ up' = [up EXCEPT ![p] = [IdleUpload EXCEPT !.status = "pending"]]
                  /\ UNCHANGED <<user_usage, drive_files>>
    /\ UNCHANGED <<notDrive, ncalls, combines, observed>>

\* lines 236-241: on any exception the temporary directory is removed, if it
\* exists, and the exception is raised again.
cc_except(p) ==
    /\ up[p].pc = "cc_except"
    /\ temp' = [temp EXCEPT ![up[p].upload_id] = NoDir]
    /\ finished' =
          {[listing |-> up[p].chunk_files, success |-> FALSE, file_id |-> 0]}
    /\ up' = [up EXCEPT ![p] = [IdleUpload EXCEPT !.status = "error"]]
    /\ UNCHANGED <<notDrive, ncalls, user_usage, drive_files, combines, observed>>

NextUpload ==
    \/ \E p \in Procs, id \in UploadIds, n \in ChunkNumbers :
          upload_file_chunked(p, 1, id, n)
    \/ \E p \in Procs : ufc_write(p)
    \/ \E p \in Procs : ufc_count(p)
    \/ \E p \in Procs : cc_list(p)
    \/ \E p \in Procs : cc_try(p)
    \/ \E p \in Procs : cc_except(p)

SpecUpload == Init /\ [][NextUpload]_vars

(***************************************************************************)
(* Two tenants send chunks under the same upload_id: the id is a form      *)
(* field of the request, the client's choice, and the directory of the     *)
(* chunks is named by it alone (line 125).                                 *)
(***************************************************************************)
UploadUsers == {1, 2}

NextTenants ==
    \/ \E p \in Procs, u \in UploadUsers, id \in UploadIds, n \in ChunkNumbers :
          upload_file_chunked(p, u, id, n)
    \/ \E p \in Procs : ufc_write(p)
    \/ \E p \in Procs : ufc_count(p)
    \/ \E p \in Procs : cc_list(p)
    \/ \E p \in Procs : cc_try(p)
    \/ \E p \in Procs : cc_except(p)

SpecTenants == Init /\ [][NextTenants]_vars

\* The upload sessions over time, with the periodic tasks of beat_schedule.
\* Of its three entries reset_monthly_usage alone touches state of this
\* model (cleanup_expired_tokens and cleanup_old_logs work on tokens and log
\* files); no entry names a task that looks at drive_storage/temp.
NextSessions ==
    \/ NextUpload
    \/ Tick
    \/ reset_monthly_usage

\* A request that has entered a handler runs to its end, time passes and the
\* scheduler runs its tasks; a client is free to send no further chunk.
SpecSessions ==
    /\ InitQuota /\ [][NextSessions]_vars
    /\ \A p \in Procs :
          WF_vars(ufc_write(p) \/ ufc_count(p) \/ cc_list(p) \/ cc_try(p) \/ cc_except(p))
    /\ WF_vars(Tick)
    /\ WF_vars(reset_monthly_usage)

(***************************************************************************)
(* DriveService.upload_file and delete_file, and the ledger they share     *)
(* with the mail job and the monthly reset.                                *)
(***************************************************************************)
FileSizes == 1..MaxFileSize
FileIds == 1..MaxUploadCalls

ledgerFrame == <<now, redis, rl, admitLog, emails, queue, rq, http, tk, runs, smtp,
                 outcome, debits, zeroed, charged, unacked, lost, temp, combines,
                 observed, finished, planVars>>

\* upload_file, lines 30-102: the user, the quota check, the file and its
\* DriveFile row, then the storage debit.  An exception ends the request.
upload_file(p, user_id, size) ==
    /\ up[p].pc = "idle"
    /\ ncalls < MaxUploadCalls
    /\ ncalls' = ncalls + 1
    /\ LET quota == IF user_id \notin DOMAIN users THEN "ValueError"
                    ELSE check_storage_quota(user_id, size)
           debited == update_storage_usage(user_id, size)
           done(result) == [IdleUpload EXCEPT !.op = "upload_file", !.month = month,
                                              !.user_id = user_id, !.total_size = size,
                                              !.status = result]
       IN  IF quota = "True"
           THEN /\ drive_files' = Append(drive_files,
                                         [user_id |-> user_id, file_size |-> size,
                                          content |-> [i \in 1..size |-> 0],
                                          is_deleted |-> FALSE])
                /\ IF debited = "NameError"
                   THEN /\ up' = [up EXCEPT ![p] = done("error")]
                        /\ UNCHANGED user_usage
                   ELSE /\ up' = [up EXCEPT ![p] = done("pending")]
                        /\ user_usage' = debited
           ELSE /\ up' = [up EXCEPT ![p] = done("error")]
                /\ UNCHANGED <<drive_files, user_usage>>
    /\ UNCHANGED <<ledgerFrame, month>>

\* delete_file, lines 268-301: the row of the file that is not deleted yet,
\* the soft delete committed, then the storage credit of -file_size.
delete_file(p, user_id, file_id) ==
    /\ up[p].pc = "idle"
    /\ ncalls < MaxUploadCalls
    /\ ncalls' = ncalls + 1
    /\ LET found == /\ file_id <= Len(drive_files)
                    /\ drive_files[file_id].user_id = user_id
                    /\ ~drive_files[file_id].is_deleted
           credited == update_storage_usage(user_id, 0 - drive_files[file_id].file_size)
           done(result) == [IdleUpload EXCEPT !.op = "delete_file", !.month = month,
                                              !.user_id = user_id, !.status = result]
       IN  IF found
           THEN /\ drive_files' = [drive_files EXCEPT ![file_id].is_deleted = TRUE]
                /\ IF credited = "NameError"
                   THEN /\ up' = [up EXCEPT ![p] = done("error")]
                        /\ UNCHANGED user_usage
                   ELSE /\ up' = [up EXCEPT ![p] = done("deleted")]
                        /\ user_usage' = credited
           ELSE /\ up' = [up EXCEPT ![p] = done("File not found")]
                /\ UNCHANGED <<drive_files, user_usage>>
    /\ UNCHANGED <<ledgerFrame, month>>

\* One mail job is enough to debit the ledger.
NextLedger ==
    \/ emails = <<>> /\ send_email(1, 1)
    \/ rl_user(1)
    \/ rl_get(1)
    \/ rl_write(1)
    \/ cel_monthly(1)
    \/ \E w \in Workers, m \in queue : deliver(w, m)
    \/ \E w \in Workers : WorkerStep(w)
    \/ \E w \in Workers : cul_insert(w)
    \/ reset_monthly_usage
    \/ NextMonth
    \/ \E p \in Procs, size \in FileSizes : upload_file(p, 1, size)
    \/ \E p \in Procs, file_id \in FileIds : delete_file(p, 1, file_id)

SpecLedger == Init /\ [][NextLedger]_vars

(***************************************************************************)
(* Aliases: EmailService.create_alias and delete_alias behind POST         *)
(* /mail/alias and DELETE /mail/alias/{alias_id}.  Neither method awaits    *)
(* anything between its first query and its commit, so a call runs to its  *)
(* end before the event loop of the one server process (main.py) serves    *)
(* another request.  A client names its aliases 1, 2, ... and may ask for  *)
(* a name again.                                                           *)
(***************************************************************************)
InternalErrorStatus == 500

AliasUsers == {1, 2}
AliasNames == 1..(MaxAliasCalls + 1)
AliasIds == 1..(MaxAliasCalls + 1)

\* db.query(Alias).filter(user_id, is_active == True)
ActiveAliases(user_id) ==
    {i \in 1..Len(aliases) : aliases[i].user_id = user_id /\ aliases[i].is_active}

\* alias_email = f"{base_email}+{alias_name}@{domain}" of the user's unique
\* address: one address per (user, alias_name).
alias_email(user_id, alias_name) == <<user_id, alias_name>>

\* db.query(Alias).filter(alias_email == ...).first(), active or not.
AliasExists(email) == \E i \in 1..Len(aliases) : aliases[i].alias_email = email

\* A limit that is reached only when it is exceeded.
max_aliases_exceeded(current_aliases, max_aliases) ==
    IF max_aliases.t = "int"
    THEN IF current_aliases > max_aliases.v THEN "True" ELSE "False"
    ELSE "TypeError"

\* line 199: current_aliases >= max_aliases (int >= str raises TypeError).
\* 5 is the one number a plan gives max_aliases, hence the one text of the
\* ValueError of line 200.
max_aliases_reached(current_aliases, max_aliases) ==
    PyGe(PyInt(current_aliases), max_aliases)

aliasFrame == <<now, month, redis, rl, admitLog, mailVars, rq, http, driveVars, call>>

\* create_alias, lines 187-240, and the route's answer (api/mail.py 185-206):
\* a ValueError is answered 400 with its text, another exception 500.
create_alias(user_id, alias_name) ==
    /\ ncalls < MaxAliasCalls
    /\ alias_name <= Len(aliases) + 1
    /\ ncalls' = ncalls + 1
    /\ LET plan == users[user_id]
           current_aliases == Cardinality(ActiveAliases(user_id))
           max_aliases == get_plan_features(plan).max_aliases
           reached == IF check_feature_access(plan, "unlimited_aliases")
                      THEN "False"
                      ELSE max_aliases_reached(current_aliases, max_aliases)
           answer(status, detail) ==
               alias_http' = [op |-> "create_alias", user_id |-> user_id,
                              status |-> status, detail |-> detail]
       IN  CASE reached = "TypeError" ->
                  /\ answer(InternalErrorStatus, "Failed to create alias")
                  /\ UNCHANGED aliases
             [] reached = "True" ->
                  /\ answer(ValueErrorStatus, "Maximum aliases (5) reached for your plan")
                  /\ UNCHANGED aliases
             [] reached = "False" /\ AliasExists(alias_email(user_id, alias_name)) ->
                  /\ answer(ValueErrorStatus, "Alias already exists")
                  /\ UNCHANGED aliases
             [] OTHER ->
                  /\ aliases' = Append(aliases,
                                       [user_id |-> user_id, alias_name |-> alias_name,
                                        alias_email |-> alias_email(user_id, alias_name),
                                        is_active |-> TRUE])
                  /\ answer(QueuedStatus, "success")
    /\ UNCHANGED aliasFrame

\* delete_alias, lines 242-263: the row of the user is set inactive.
delete_alias(user_id, alias_id) ==
    /\ ncalls < MaxAliasCalls
    /\ alias_id <= Len(aliases) + 1
    /\ ncalls' = ncalls + 1
    /\ LET found == alias_id <= Len(aliases) /\ aliases[alias_id].user_id = user_id
           answer(status, detail) ==
               alias_http' = [op |-> "delete_alias", user_id |-> user_id,
                              status |-> status, detail |-> detail]
       IN  IF found
           THEN /\ aliases' = [aliases EXCEPT ![alias_id].is_active = FALSE]
                /\ answer(QueuedStatus, "Alias deleted successfully")
           ELSE /\ answer(ValueErrorStatus, "Alias not found")
                /\ UNCHANGED aliases
    /\ UNCHANGED aliasFrame

NextAlias ==
    \/ \E u \in AliasUsers, alias_name \in AliasNames : create_alias(u, alias_name)
    \/ \E u \in AliasUsers, alias_id \in AliasIds : delete_alias(u, alias_id)

SpecAlias == Init /\ [][NextAlias]_vars

(***************************************************************************)
(* Properties.                                                             *)
(***************************************************************************)
RECURSIVE SumOver(_, _)
SumOver(f, S) ==
    IF S = {} THEN 0
    ELSE LET x == CHOOSE y \in S : TRUE IN f[x] + SumOver(f, S \ {x})

Windows == {t \div WindowSeconds : t \in Times}

\* Calls for key k that returned True in the fixed window w = floor(t / 60).
AdmittedInWindow(k, w) ==
    SumOver(admitLog[k], {t \in Times : t \div WindowSeconds = w})

\* C1: for every tenant and action, the calls of check_rate_limit that return
\* True within one 60-second window never exceed the plan's per-minute limit
\* (one counter per (tenant, action) is what the Redis key gives).
C1_AdmittedWithinLimit ==
    \A k \in Keys : \A w \in Windows :
        k[1] \in DOMAIN users =>
            AdmittedInWindow(k, w) <= PlanRateLimit(users[k[1]], k[2])

\* The responses given to the requests of the free-plan users, in order.
FreeResponses == SelectSeq(http, LAMBDA r : users[r.user_id] = "free")

TooManyRequests == 429

\* C2: of the sequential submissions of a free-plan tenant within one window
\* the first 5 are admitted and the 6th is rejected as rate-limited:
\* check_rate_limit returns False and the route answers 429 with a detail
\* containing "Rate limit exceeded".
C2_SixthRejected ==
    /\ \A i \in 1..Len(FreeResponses) :
          i <= PlanRateLimit("free", "email") =>
              FreeResponses[i].rate_ok = "True" /\ FreeResponses[i].status = QueuedStatus
    /\ Len(FreeResponses) > PlanRateLimit("free", "email") =>
          LET r == FreeResponses[PlanRateLimit("free", "email") + 1]
          IN  /\ r.rate_ok = "False"
              /\ r.status = TooManyRequests
              /\ r.detail = "Rate limit exceeded"

\* C3: debits of the usage ledger are never lost: the emails_sent of a row
\* that no reset has touched equals the number of update_email_usage calls
\* that returned for its tenant and month, whatever their interleaving.
C3_NoLostDebit ==
    \A i \in 1..Len(user_usage) :
        i \notin zeroed =>
            user_usage[i].emails_sent = debits[<<user_usage[i].user_id, user_usage[i].month>>]

\* C4: for one upload_id completion fires exactly once under every
\* interleaving of upload_file_chunked calls: combine_chunks runs once and
\* its run produces one DriveFile record and one storage debit.
C4_CompletionOnce ==
    \A id \in UploadIds :
        /\ combines[id] <= 1
        /\ \A f \in finished : f.success
        /\ finished # {} =>
              /\ Len(drive_files) = 1
              /\ \E i \in 1..Len(user_usage) :
                    user_usage[i].storage_used_bytes = drive_files[1].file_size

\* C5: upload_file_chunked triggers the finalization if and only if every
\* chunk number of [0, total_chunks) has been received; a session that misses
\* a number of the range is never finalized.
C5_FinalizeIffAllReceived ==
    \A o \in observed : o.finalize <=> InRange \subseteq o.listing

\* C6: a resubmission of chunk number K to a session in progress leaves the
\* set of received chunk numbers, and so the count reported as
\* chunks_uploaded, as the first submission of K left it.
C6_ResubmitIdempotent ==
    [][\A p \in Procs : \A id \in UploadIds : \A K \in ChunkNumbers :
          (/\ up[p].pc = "ufc_write" /\ up'[p].pc = "ufc_count"
           /\ up[p].upload_id = id /\ up[p].chunk_number = K
           /\ K \in glob(id))
          => /\ glob(id)' = glob(id)
             /\ Cardinality(glob(id)') = Cardinality(glob(id))]_vars

\* A chunk has been written again over its own file, the other chunk of the
\* session still missing.
C6_Witness ==
    \E p \in Procs :
        /\ up[p].pc = "ufc_count" /\ up[p].existed
        /\ glob(up[p].upload_id) = {up[p].chunk_number}

\* The contents of the chunks 0 .. n-1 one after the other.
RECURSIVE Ascending(_)
Ascending(n) == IF n = 0 THEN <<>> ELSE Ascending(n - 1) \o ChunkBytes(n - 1)

\* C7: whatever the order of arrival, the file finalized from the chunks
\* 0 .. total_chunks-1 is their contents in ascending order of chunk number
\* and its recorded size is the sum of the chunk sizes.
C7_AscendingConcatenation ==
    \A f \in finished :
        f.listing = sorted(InRange) =>
            /\ f.success
            /\ drive_files[f.file_id].content = Ascending(TotalChunks)
            /\ drive_files[f.file_id].file_size = Len(Ascending(TotalChunks))

SentInMonth(user_id) ==
    (IF user_id = 1 THEN AlreadySent ELSE 0)
        + SumOver(smtp, {e \in 1..Len(emails) : emails[e].user_id = user_id})

\* C12: under every interleaving of submissions, worker executions and
\* resets, the mails sent for a tenant of a bounded plan within one calendar
\* month never exceed the plan's max_emails_per_month.
C12_MonthlyLimitKept ==
    \A u \in DOMAIN users :
        get_plan_features(users[u]).max_emails_per_month # Unlimited =>
            SentInMonth(u) <= get_plan_features(users[u]).max_emails_per_month.v

\* The usage row a request reads shows the tenant at or over its limit.
OverQuota(p) ==
    LET usage == UsageFirst(rq[p].user_id, month)
    IN  /\ usage # 0
        /\ ~check_email_monthly_limit(users[rq[p].user_id], user_usage[usage].emails_sent)

\* C14: a send_email rejected for the rate limit or the monthly quota is
\* answered to the caller at once and leaves nothing behind: a request that
\* finds the tenant over its quota is answered with the error, and with every
\* error answer no Email row is created and no send_email_task is submitted.
C14_RejectedNotEnqueued ==
    [][\A p \in Procs :
          (rq[p].pc = "cel_monthly" /\ rq'[p].pc = "idle") =>
              /\ OverQuota(p) => http'[Len(http')].status = ValueErrorStatus
              /\ http'[Len(http')].status # QueuedStatus =>
                    emails' = emails /\ queue' = queue]_vars

\* A request was refused for the monthly limit after a mail had been queued,
\* and the table emails holds the queued mail alone.
C14_Witness ==
    /\ \E i \in 1..Len(http) : http[i].detail = "Monthly email limit exceeded"
    /\ Len(emails) = 1
    /\ \A m \in queue \cup unacked : m.email_id = 1

\* C15: a job whose handler fails with a permanent error (ValueError: user
\* not found, usage limit exceeded) is failed at once: no retry of it is
\* ever queued or delivered.
C15_PermanentNotRetried ==
    \A m \in queue \cup unacked : m.exc # "ValueError"

\* C16: an execution of send_email_task that finds the Email row SENT
\* already (redelivery, retry) stops before it acts: it hands nothing to the
\* SMTP server and debits nothing.
C16_NoSecondSend ==
    \A w \in Workers :
        tk[w].sent_before =>
            tk[w].pc \notin {"task_sent", "ueu_read", "ueu_write", "task_return"}

\* C17: the Email row is set to FAILED once, when the job has failed for
\* good, and never by an attempt that is retried.
C17_FailedOnlyWhenTerminal ==
    \A e \in 1..Len(emails) :
        emails[e].status = "failed" => outcome[e] = "failure"

\* No message of the job of email e is queued or unacknowledged.
Settled(e) == \A m \in queue \cup unacked : m.email_id # e

\* C18: when send_email_task has succeeded and its message is
\* acknowledged, the status SENT and the emails_sent debit were committed
\* before: a job without a pending or unacknowledged message that has not
\* failed shows both.
C18_CommittedBeforeAck ==
    \A e \in 1..Len(emails) :
        (Settled(e) /\ outcome[e] # "failure") =>
            emails[e].status = "sent" /\ charged[e] >= 1

\* A job has succeeded and is acknowledged after a worker was lost on it.
C18_Witness ==
    \E e \in 1..Len(emails) :
        Settled(e) /\ outcome[e] = "success" /\ lost > 0 /\ runs[e] >= 2

\* C19: every queued job reaches a terminal outcome, also when a worker is
\* lost after it received the message: the message is delivered again and no
\* Email stays PENDING for ever.
C19_EventuallyTerminal ==
    \A e \in 1..MaxMailCalls :
        (Len(emails) >= e) ~>
            (Len(emails) >= e /\ outcome[e] # "none" /\ emails[e].status # "pending")

\* A job has ended although the one worker that ran it first was lost
\* before it touched the Email row.
C19_Witness ==
    \E e \in 1..Len(emails) :
        /\ lost > 0 /\ runs[e] = 2 /\ smtp[e] = 1
        /\ outcome[e] = "success" /\ emails[e].status = "sent"

\* C20: the chunk files of a session are deleted only after the
\* finalization has succeeded: when combine_chunks has failed, every chunk
\* received is still there for another attempt.
C20_ChunksKeptOnFailure ==
    \A id \in UploadIds : \A f \in finished :
        ~f.success => \A i \in 1..Len(f.listing) : f.listing[i] \in glob(id)

\* C21: an upload session that stays incomplete is reclaimed in the end by
\* a periodic cleanup job, whatever the TTL: its chunk storage (the temporary
\* directory of the upload_id) does not stay for ever.
C21_OrphanReclaimed ==
    \A id \in UploadIds : temp[id].exists ~> ~temp[id].exists

\* The session of the upload_id existed and its directory is gone.
Reclaimed(id) == combines[id] > 0 /\ ~temp[id].exists

\* C22: a chunk submitted for an upload_id whose session no longer exists
\* is rejected with "session not found" and creates no session state and no
\* chunk storage.
C22_LateChunkRejected ==
    [][\A p \in Procs : \A id \in UploadIds :
          (Reclaimed(id) /\ \E n \in ChunkNumbers : upload_file_chunked(p, 1, id, n))
          => /\ ~temp'[id].exists
             /\ up'[p].status = "session not found"]_vars

\* C23: at every instant every chunk number stored for a session lies in
\* [0, total_chunks): a chunk_number outside that range is not added.
C23_ChunkNumbersInRange ==
    \A id \in UploadIds : glob(id) \subseteq InRange

\* C25: the monthly reset runs at the boundary of a period, before any
\* usage of the new period is recorded: a run of reset_monthly_usage finds
\* the counters of the rows of the current month at 0 and so erases no usage
\* accrued in the current period.
C25_ResetErasesNothing ==
    [][reset_monthly_usage =>
         \A i \in 1..Len(user_usage) :
             user_usage[i].month = month =>
                 /\ user_usage[i].emails_sent = 0
                 /\ user_usage'[i].emails_sent = user_usage[i].emails_sent]_vars

\* C26: for a tenant of the enterprise plan that check_rate_limit has
\* admitted, check_email_limits returns allowed = True whatever emails_sent
\* is: the "unlimited" of max_emails_per_month never makes it refuse.
C26_UnlimitedAlwaysAllowed ==
    (/\ call.fn = "check_email_limits" /\ call.ret # "none"
     /\ call.plan = "enterprise" /\ call.rate_ok = "True")
        => call.ret = "True"

\* C27: check_email_monthly_limit(plan, n) is True exactly when n < 300 on
\* the free plan and when n < 500 on the pro plan (299 -> True, 300 ->
\* False), and is True for every n on the enterprise plan.
C27_MonthlyLimitStrict ==
    (call.fn = "check_email_monthly_limit" /\ call.ret # "none") =>
        call.ret = CASE call.plan = "free" -> PyBool(call.arg < 300)
                     [] call.plan = "pro" -> PyBool(call.arg < 500)
                     [] call.plan = "enterprise" -> "True"

\* check_email_monthly_limit("free", 300) has returned False.
C27_Witness ==
    /\ call.fn = "check_email_monthly_limit" /\ call.plan = "free"
    /\ call.arg = 300 /\ call.ret = "False"

\* C28 as stated: after every sequence of create_alias and delete_alias
\* calls the free-plan tenant has at most 5 active aliases; a creation
\* succeeds while fewer than 5 are active, and the creation that would make
\* a 6th is answered 400 with a "Maximum aliases" error and adds no alias.
C28_AtMostFiveActive ==
    [][/\ Cardinality(ActiveAliases(1))' <= 5
       /\ \A n \in AliasNames :
             create_alias(1, n) =>
                 IF Cardinality(ActiveAliases(1)) < 5
                 THEN /\ alias_http'.status = QueuedStatus
                      /\ Len(aliases') = Len(aliases) + 1
                 ELSE /\ alias_http'.status = ValueErrorStatus
                      /\ alias_http'.detail = "Maximum aliases (5) reached for your plan"
                      /\ aliases' = aliases]_vars

\* C28 amended: the free-plan tenant has at most 5 active aliases at every
\* instant.  While fewer than 5 are active, the creation of an alias whose
\* address no row of the table holds (active or deleted) succeeds, and one
\* whose address is held is answered 400 "Alias already exists"; with 5
\* active every creation is answered 400 with the "Maximum aliases" error;
\* a creation that is refused adds no alias.
C28_AtMostFiveActiveFresh ==
    [][/\ Cardinality(ActiveAliases(1))' <= 5
       /\ \A n \in AliasNames :
             create_alias(1, n) =>
                 CASE Cardinality(ActiveAliases(1)) >= 5 ->
                        /\ alias_http'.status = ValueErrorStatus
                        /\ alias_http'.detail = "Maximum aliases (5) reached for your plan"
                        /\ aliases' = aliases
                   [] Cardinality(ActiveAliases(1)) < 5
                         /\ AliasExists(alias_email(1, n)) ->
                        /\ alias_http'.status = ValueErrorStatus
                        /\ alias_http'.detail = "Alias already exists"
                        /\ aliases' = aliases
                   [] OTHER ->
                        /\ alias_http'.status = QueuedStatus
                        /\ Len(aliases') = Len(aliases) + 1
                        /\ Cardinality(ActiveAliases(1))'
                               = Cardinality(ActiveAliases(1)) + 1]_vars

\* With 5 aliases active again after a deletion and a new creation, a
\* further creation has been refused for the limit.
C28_Witness ==
    /\ alias_http.op = "create_alias" /\ alias_http.user_id = 1
    /\ alias_http.detail = "Maximum aliases (5) reached for your plan"
    /\ Cardinality(ActiveAliases(1)) = 5
    /\ \E i \in 1..Len(aliases) : ~aliases[i].is_active

\* C29: check_storage_limit, check_upload_size and check_team_member_limit
\* are True exactly when the usage given is <= the limit of the plan (free
\* 5 GB, 50 MB, 1 member; pro 50 GB, 2048 MB, 10 members), the usage equal
\* to the limit included, and are True for every usage where the plan's
\* limit is "unlimited" (enterprise).
C29_LimitsInclusive ==
    LET within(free_limit, pro_limit) ==
            CASE call.plan = "free" -> PyBool(call.arg <= free_limit)
              [] call.plan = "pro" -> PyBool(call.arg <= pro_limit)
              [] call.plan = "enterprise" -> "True"
    IN  call.ret # "none" =>
            /\ call.fn = "check_storage_limit" => call.ret = within(5, 50)
            /\ call.fn = "check_upload_size" => call.ret = within(50, 2048)
            /\ call.fn = "check_team_member_limit" => call.ret = within(1, 10)

\* check_storage_limit("free", 5), the usage equal to the limit, has
\* returned True.
C29_Witness ==
    /\ call.fn = "check_storage_limit" /\ call.plan = "free"
    /\ call.arg = 5 /\ call.ret = "True"

\* C30: the retry that follows the failed attempt number k (k retries made
\* before it) is asked for with the delay base_delay * 2^k, base_delay = 60
\* seconds, and the delay never exceeds the maximum delay the task is
\* configured with.
C30_BackoffCapped ==
    \A m \in queue \cup unacked :
        m.retries > 0 =>
            /\ m.countdown = task_options.default_retry_delay * (2 ^ (m.retries - 1))
            /\ "retry_backoff_max" \in DOMAIN task_options
            /\ m.countdown <= task_options.retry_backoff_max

C9_ResetFrame ==
    [][reset_monthly_usage =>
         /\ Len(user_usage') = Len(user_usage)
         /\ \A i \in 1..Len(user_usage) :
               IF user_usage[i].month = month
               THEN user_usage'[i] =
                       [user_usage[i] EXCEPT !.emails_sent = 0, !.emails_received = 0]
               ELSE user_usage'[i] = user_usage[i]]_vars

\* A reset has zeroed a row of the current month while a row of another
\* month keeps its count.
C9_Witness ==
    \E i, j \in 1..Len(user_usage) :
        /\ i \in zeroed /\ user_usage[i].month = month /\ user_usage[i].emails_sent = 0
        /\ user_usage[j].month # month /\ user_usage[j].emails_sent > 0

\* C10: at every instant at most one usage row exists per (tenant, month),
\* also when two handlers race on the lazy creation of the row.
C10_UniqueUserMonth ==
    \A u \in DOMAIN users : \A m \in Months : Cardinality(UsageIds(u, m)) <= 1

\* A worker is about to insert the row of the month that another handler
\* has inserted since this worker looked for it.
C10_Witness ==
    \E w \in Workers :
        tk[w].pc = "cul_insert" /\ ~uq_user_month_usage(tk[w].msg.user_id, month)

\* The step of handler thread p that executes line 175 (the read of line 173
\* had found no counter) and returns.
CreatesCounter(p) == rl[p].pc = "rl_setex" /\ rl'[p].pc = "idle"

\* The key a frame of check_rate_limit works on.
FrameKey(f) == <<f.user_id, f.action>>

\* C32 as stated: when no counter exists for (tenant, action), the call
\* creates one with count 1 whose expiry is the end of the current fixed
\* window, window = floor(now / 60), and returns True.
C32_ExpiryAtWindowEnd ==
    [][\A p \in Procs :
          CreatesCounter(p) =>
              /\ redis'[FrameKey(rl[p])] =
                    [val |-> 1,
                     exp |-> ((now \div WindowSeconds) + 1) * WindowSeconds]
              /\ rl'[p].result = "True"]_vars

\* C32 amended: when the call finds no counter for (tenant, action), it sets
\* the counter to 1 with an expiry 60 seconds after the write, wherever in
\* the minute the write falls, and returns True.
C32_ExpirySixtyAfterWrite ==
    [][\A p \in Procs :
          CreatesCounter(p) =>
              /\ redis'[FrameKey(rl[p])] =
                    [val |-> 1, exp |-> now + WindowSeconds]
              /\ rl'[p].result = "True"]_vars

\* A call made in the middle of a minute has created its counter and
\* returned True: the counter ends in the middle of the next minute.
C32_Witness ==
    \E p \in Procs :
        /\ rl[p].pc = "idle" /\ rl[p].result = "True"
        /\ now % WindowSeconds # 0
        /\ redis[FrameKey(rl[p])] = [val |-> 1, exp |-> now + WindowSeconds]

\* Calls for key k that returned True in the 60 seconds that begin at t.
AdmittedInInterval(k, t) ==
    SumOver(admitLog[k], {s \in Times : t <= s /\ s < t + WindowSeconds})

\* C34: over any interval of 60 seconds, aligned with a window or not, the
\* calls of check_rate_limit admitted for one (tenant, action) never exceed
\* twice the plan's per-window limit.
C34_TwiceLimitPerInterval ==
    \A k \in Keys : \A t \in Times :
        k[1] \in DOMAIN users =>
            AdmittedInInterval(k, t) <= 2 * PlanRateLimit(users[k[1]], k[2])

\* C35: once the status of an Email row is SENT it never changes again:
\* neither a later step of the execution that sent it nor a retried or
\* redelivered execution sets it to FAILED.
C35_SentIsFinal ==
    [][\A e \in 1..Len(emails) :
          emails[e].status = "sent" => emails'[e].status = "sent"]_vars

StepOfCall(p) == rl[p].pc # "idle" /\ rl'[p] # rl[p]

Raises(p) ==
    \/ rl_except(p)
    \/ /\ rl[p].pc = "rl_get"
       /\ rl'[p].pc = "idle"
       /\ RedisGet(<<rl[p].user_id, rl[p].action>>) # None
       /\ PyGe(int(RedisGet(<<rl[p].user_id, rl[p].action>>)), rl[p].limit) = "TypeError"

\* C40: a call of check_rate_limit in which anything raises returns True and
\* the failing step changes no counter; a call returns False only for a user
\* that does not exist, and then without touching any counter.
C40_FailOpen ==
    [][\A p \in Procs :
          /\ Raises(p) =>
                /\ rl'[p].pc = "idle" /\ rl'[p].result = "True"
                /\ redis' = redis
          /\ (StepOfCall(p) /\ rl'[p].result = "False") =>
                /\ rl[p].user_id \notin DOMAIN users
                /\ redis' = redis
          /\ (StepOfCall(p) /\ ~Raises(p) /\ rl[p].pc = "rl_user"
                 /\ rl[p].user_id \notin DOMAIN users) =>
                /\ rl'[p].pc = "idle" /\ rl'[p].result = "False"
                /\ redis' = redis]_vars

\* While the tenant's counter exists, one call has been let through by the
\* except clause and the call for a user without a row has returned False.
C40_Witness ==
    \E p, q \in Procs :
        /\ rl[p].pc = "idle" /\ rl[p].result = "True" /\ rl[p].user_id \in DOMAIN users
        /\ redis[<<rl[p].user_id, rl[p].action>>] # NoKey
        /\ admitLog[<<rl[p].user_id, rl[p].action>>][now] > 1
        /\ rl[q].pc = "idle" /\ rl[q].result = "False" /\ rl[q].user_id = NoSuchUser

\* The chunk files in the directory of the request of handler thread p that
\* another tenant has sent.
ForeignChunks(p) ==
    {n \in glob(up[p].upload_id) :
        temp[up[p].upload_id].sender[n] # up[p].user_id}

\* C38: the chunks a tenant has sent under an upload_id are never counted
\* toward, nor listed for the concatenation into, the file that is finalized
\* for another tenant sending chunks under the same upload_id.
C38_ChunksOfOneTenant ==
    [][\A p \in Procs :
          /\ (up[p].pc = "ufc_count" /\ up'[p].pc = "cc_list") => ForeignChunks(p) = {}
          /\ (up[p].pc = "cc_list" /\ up'[p].pc = "cc_quota") => ForeignChunks(p) = {}]_vars

====
